---- MODULE Spec2Model ----
(***************************************************************************)
(* A model of pynautobot.core.api.Api: client construction (base URL,      *)
(* headers, session and retry adapter, version gate), the fixed-path calls *)
(* and the request engine the client hands its session to.                 *)
(*                                                                         *)
(* Python strings are sequences of one-character strings, so that          *)
(* formatting, stripping, splitting and parsing are computed, not assumed. *)
(***************************************************************************)
EXTENDS Integers, Sequences, FiniteSets, TLC

VARIABLES
    pc,         \* the caller's view of the client: "new", "usable", "failed"
    args,       \* the arguments the caller gave the constructor
    self,       \* the attributes of the Api object set by __init__
    err,        \* the exception the last operation raised (type "None": none)
    ret,        \* the value the last operation returned
    log,        \* the requests sent through self.http_session, in order
    server,     \* the remote server: the version it reports
    pg          \* the state of the fetchPaginated call in progress

vars == <<pc, args, self, err, ret, log, server, pg>>

(***************************************************************************)
(* Bounds of the model                                                     *)
(***************************************************************************)
MaxRetries == 2      \* retries is drawn from 0..MaxRetries
MaxWorkers == 2      \* max_workers is drawn from 1..MaxWorkers
MaxVerLen == 4       \* every version string up to this length is tried
MaxUrlLen == 4       \* every URL up to this length is tried
MaxCalls == 2        \* calls made through a usable client
MaxItems == 4        \* items of the paginated resource
MaxPageSize == 2     \* page sizes 1..MaxPageSize

(***************************************************************************)
(* Python strings                                                          *)
(***************************************************************************)
Digits == {"0", "1", "2", "3", "4", "5", "6", "7", "8", "9"}

DigitVal(c) ==
    CASE c = "0" -> 0 [] c = "1" -> 1 [] c = "2" -> 2 [] c = "3" -> 3
      [] c = "4" -> 4 [] c = "5" -> 5 [] c = "6" -> 6 [] c = "7" -> 7
      [] c = "8" -> 8 [] c = "9" -> 9

\* every sequence over alphabet A of length 0..n
StringsUpTo(A, n) == UNION {[1..k -> A] : k \in 0..n}

\* s[i:] and s[:j] of Python, 1-based: the suffix from i, the prefix of length j
Tail2(s, i) == SubSeq(s, i, Len(s))
Prefix(s, j) == SubSeq(s, 1, j)

\* needle in hay
Contains(hay, needle) ==
    \E i \in 1..(Len(hay) - Len(needle) + 1) :
        SubSeq(hay, i, i + Len(needle) - 1) = needle

\* str.replace(".", "")
replace_dots(s) == SelectSeq(s, LAMBDA c : c # ".")

\* str.isnumeric(): non-empty and every character numeric
isnumeric(s) == Len(s) > 0 /\ \A i \in 1..Len(s) : s[i] \in Digits

\* str.split("."): the components between the dots, empty ones kept
RECURSIVE split_dots(_)
split_dots(s) ==
    IF \A i \in 1..Len(s) : s[i] # "." THEN <<s>>
    ELSE LET k == CHOOSE i \in 1..Len(s) :
                      s[i] = "." /\ \A j \in 1..(i - 1) : s[j] # "."
         IN  <<Prefix(s, k - 1)>> \o split_dots(Tail2(s, k + 1))

\* int(s) of a string of decimal digits
RECURSIVE int(_)
int(s) ==
    IF Len(s) = 0 THEN 0
    ELSE 10 * int(Prefix(s, Len(s) - 1)) + DigitVal(s[Len(s)])

\* str(x) as an f-string formats it: None becomes the text "None"
NoneToken == [isNone |-> TRUE, val |-> <<>>]
Str(s) == [isNone |-> FALSE, val |-> s]
format(x) == IF x.isNone THEN <<"N", "o", "n", "e">> ELSE x.val

(***************************************************************************)
(* packaging.version: parse and compare, as used by _validate_version      *)
(***************************************************************************)
\* version.parse on a string of digits and dots: a release is one or more
\* non-empty runs of digits separated by single dots; anything else raises
\* InvalidVersion.  The release is kept as a tuple of integers.
version_parse(s) ==
    LET parts == split_dots(s)
        ok == \A i \in 1..Len(parts) : isnumeric(parts[i])
    IN  [valid |-> ok,
         release |-> IF ok THEN [i \in 1..Len(parts) |-> int(parts[i])]
                     ELSE <<>>]

\* the comparison key of a release: trailing zeros dropped ("2.0" = "2")
RECURSIVE cmpkey(_)
cmpkey(r) ==
    IF Len(r) > 0 /\ r[Len(r)] = 0 THEN cmpkey(Prefix(r, Len(r) - 1)) ELSE r

\* tuple comparison a < b
RECURSIVE tuple_less(_, _)
tuple_less(a, b) ==
    IF Len(b) = 0 THEN FALSE
    ELSE IF Len(a) = 0 THEN TRUE
    ELSE IF a[1] # b[1] THEN a[1] < b[1]
    ELSE tuple_less(Tail(a), Tail(b))

version_less(a, b) == tuple_less(cmpkey(a.release), cmpkey(b.release))

(***************************************************************************)
(* Exceptions and return values                                            *)
(***************************************************************************)
NoErr == [type |-> "None", msg |-> <<>>, status |-> 0, body |-> <<>>]
NoRet == [kind |-> "None", val |-> <<>>]

\* the text of the ValueError of line 123
IncompatMsg ==
    <<"N", "a", "u", "t", "o", "b", "o", "t", " ", "v", "e", "r", "s", "i",
      "o", "n", " ", "1", " ", "d", "e", "t", "e", "c", "t", "e", "d", ",",
      " ", "p", "l", "e", "a", "s", "e", " ", "d", "o", "w", "n", "g", "r",
      "a", "d", "e", " ", "p", "y", "n", "a", "u", "t", "o", "b", "o", "t",
      " ", "t", "o", " ", "v", "e", "r", "s", "i", "o", "n", " ", "1", ".",
      "x">>

\* the floor of line 122
Floor == <<"2", ".", "0">>

Incompatible(v) ==
    [type |-> "ValueError", msg |-> IncompatMsg, status |-> 0, body |-> <<>>]
InvalidVersion(v) ==
    [type |-> "InvalidVersion",
     msg |-> <<"I", "n", "v", "a", "l", "i", "d", " ", "v", "e", "r", "s",
               "i", "o", "n", ":", " ", "'">> \o v \o <<"'">>,
     status |-> 0, body |-> <<>>]
IndexError ==
    [type |-> "IndexError", msg |-> <<>>, status |-> 0, body |-> <<>>]
RetryError(st) ==
    [type |-> "RetryError", msg |-> <<>>, status |-> st, body |-> <<>>]
RequestError(st, b) ==
    [type |-> "RequestError", msg |-> <<>>, status |-> st, body |-> b]

(***************************************************************************)
(* Api._validate_version, lines 122-123: the condition and the raise       *)
(***************************************************************************)
version_check_le(api_version) ==
    \* mutant: the floor itself is rejected (<= for <)
    IF ~isnumeric(replace_dots(api_version)) THEN NoErr
    ELSE IF ~version_parse(api_version).valid
         THEN InvalidVersion(api_version)
    ELSE IF ~version_less(version_parse(Floor), version_parse(api_version))
         THEN Incompatible(api_version)
    ELSE NoErr

version_check_names(api_version) ==
    \* mutant: the message is built from the detected version
    IF ~isnumeric(replace_dots(api_version)) THEN NoErr
    ELSE IF ~version_parse(api_version).valid
         THEN InvalidVersion(api_version)
    ELSE IF version_less(version_parse(api_version), version_parse(Floor))
         THEN [Incompatible(api_version) EXCEPT
                  !.msg = api_version \o <<" ", "<", " ">> \o Floor]
    ELSE NoErr

version_check(api_version) ==
    IF ~isnumeric(replace_dots(api_version)) THEN NoErr
    ELSE IF ~version_parse(api_version).valid
         THEN InvalidVersion(api_version)
    ELSE IF version_less(version_parse(api_version), version_parse(Floor))
         THEN Incompatible(api_version)
    ELSE NoErr

(***************************************************************************)
(* The transport: requests.Session with the adapters __init__ mounts, and  *)
(* urllib3's Retry as HTTPAdapter.send drives it                           *)
(***************************************************************************)
Prefixes == {"http://", "https://"}
StatusForcelist == {429, 500, 502, 503, 504}
RetryAfterStatusCodes == {413, 429, 503}
IdempotentMethods == {"HEAD", "GET", "PUT", "DELETE", "OPTIONS", "TRACE"}

\* HTTPAdapter() as requests.Session() mounts it: Retry(0, read=False)
DefaultAdapter ==
    [total |-> 0, status_forcelist |-> {},
     allowed_methods |-> [all |-> FALSE, set |-> IdempotentMethods]]

\* lines 94-101
RetryAdapter(retries) ==
    [total |-> retries, status_forcelist |-> StatusForcelist,
     allowed_methods |-> [all |-> TRUE, set |-> {}]]

\* lines 91-103; id tells Session objects apart: the one line 91 creates is
\* the first of the client
make_session_short(verify, retries) ==
    \* mutant: one retry fewer than configured
    [id |-> 1, verify |-> verify,
     adapters |-> [p \in Prefixes |->
                      IF retries # 0 THEN RetryAdapter(retries - 1)
                      ELSE DefaultAdapter]]

make_session(verify, retries) ==
    [id |-> 1, verify |-> verify,
     adapters |-> [p \in Prefixes |->
                      IF retries # 0 THEN RetryAdapter(retries)
                      ELSE DefaultAdapter]]

\* a response of the server: its status and whether it carries Retry-After
Resp(st, ra) == [status |-> st, retry_after |-> ra]

\* Retry.is_retry
is_retry(retry, method, resp) ==
    /\ (retry.allowed_methods.all \/ method \in retry.allowed_methods.set)
    /\ \/ resp.status \in retry.status_forcelist
       \/ /\ retry.total # 0
          /\ resp.retry_after
          /\ resp.status \in RetryAfterStatusCodes

\* Retry.increment and Retry.is_exhausted
increment(retry) == [retry EXCEPT !.total = retry.total - 1]

is_exhausted_early(retry) ==
    \* mutant: the last retry is never used
    retry.total <= 0

is_exhausted(retry) == retry.total < 0

\* HTTPConnectionPool.urlopen: attempt i of the call gets script[i]; the
\* result is the number of attempts made, the last response and whether
\* MaxRetryError was raised (raise_on_status is left at its default)
RECURSIVE urlopen(_, _, _, _)
urlopen(retry, method, script, i) ==
    IF is_retry(retry, method, script[i])
    THEN IF is_exhausted(increment(retry))
         THEN [attempts |-> i, resp |-> script[i], raised |-> TRUE]
         ELSE urlopen(increment(retry), method, script, i + 1)
    ELSE [attempts |-> i, resp |-> script[i], raised |-> FALSE]

\* Session.send through the adapter mounted for the URL's scheme
session_send(session, method, script) ==
    urlopen(session.adapters["https://"], method, script, 1)

(***************************************************************************)
(* The request engine (pynautobot.core.query.Request): one call over the   *)
(* shared session                                                          *)
(***************************************************************************)
IsOk(st) == st \in 200..299

\* the headers of a request: Authorization when a token is configured, the
\* version selector when an api_version override is set
Request_headers(token, api_version) ==
    [h \in (IF token.isNone THEN {} ELSE {"Authorization"})
           \cup (IF api_version.isNone THEN {} ELSE {"Accept"}) |->
        IF h = "Authorization"
        THEN <<"T", "o", "k", "e", "n", " ">> \o token.val
        ELSE api_version.val]

\* what the server sends back on a fixed path when it answers 2xx
ServerPayload(srv, op) == IF op = "version" THEN srv.version ELSE <<op>>
ErrorBody == <<"d", "e", "t", "a", "i", "l">>

\* Request(base, http_session, api_version, token).get_<op>(): one request
\* through the session; a non-2xx response raises RequestError
Request_call(s, srv, op, method, script) ==
    LET t == session_send(s.http_session, method, script)
        entry == [op |-> op, method |-> method, base |-> s.base_url,
                  session |-> s.http_session.id,
                  headers |-> Request_headers(s.token, s.api_version),
                  seen |-> [i \in 1..t.attempts |-> script[i].status],
                  ok |-> ~t.raised /\ IsOk(t.resp.status),
                  val |-> IF ~t.raised /\ IsOk(t.resp.status)
                          THEN ServerPayload(srv, op) ELSE <<>>]
    IN  [entry |-> entry,
         err |-> IF t.raised THEN RetryError(t.resp.status)
                 ELSE IF ~IsOk(t.resp.status)
                      THEN RequestError(t.resp.status, ErrorBody)
                 ELSE NoErr,
         ret |-> IF entry.ok THEN [kind |-> op, val |-> entry.val]
                 ELSE NoRet]

(***************************************************************************)
(* Api: the properties and methods of lines 119-208                        *)
(***************************************************************************)
\* lines 125-149, 151-173, 175-208
Api_version(s, srv, script) == Request_call(s, srv, "version", "GET", script)
Api_openapi_unversioned(s, srv, script) ==
    \* mutant: api_version is not handed to the Request (line 171 left out)
    Request_call([s EXCEPT !.api_version = NoneToken], srv, "openapi", "GET",
                 script)

Api_openapi(s, srv, script) == Request_call(s, srv, "openapi", "GET", script)
Api_status_fresh(s, srv, script) ==
    \* mutant: the call is sent over a copy of the session made for it
    Request_call([s EXCEPT !.http_session.id = @ + 1], srv, "status", "GET",
                 script)

Api_status(s, srv, script) == Request_call(s, srv, "status", "GET", script)

\* lines 119-123: what was sent, and the exception raised (if any)
_validate_version_twice(s, srv, script) ==
    \* mutant: self.version is read once for each use on line 122
    LET r == Api_version(s, srv, script)
    IN  [log |-> <<r.entry, r.entry>>,
         err |-> IF r.err.type # "None" THEN r.err
                 ELSE version_check(r.ret.val)]

_validate_version_unchecked(s, srv, script) ==
    \* mutant: the version is fetched and never compared
    LET r == Api_version(s, srv, script)
    IN  [log |-> <<r.entry>>, err |-> r.err]

_validate_version(s, srv, script) ==
    LET r == Api_version(s, srv, script)
    IN  [log |-> <<r.entry>>,
         err |-> IF r.err.type # "None" THEN r.err
                 ELSE version_check(r.ret.val)]

(***************************************************************************)
(* Api.__init__, lines 77-117                                              *)
(***************************************************************************)
DefaultMaxWorkers == 4
Apps == {"dcim", "ipam", "circuits", "tenancy", "extras", "virtualization",
         "users", "plugins", "graphql"}

Args(url, token, threading, max_workers, api_version, retries, verify) ==
    [url |-> url, token |-> token, threading |-> threading,
     max_workers |-> max_workers, api_version |-> api_version,
     retries |-> retries, verify |-> verify]

\* the defaults of lines 80-85
DefaultArgs(url) ==
    Args(url, NoneToken, FALSE, DefaultMaxWorkers, NoneToken, 0, TRUE)

NoSelf ==
    [token |-> NoneToken, headers |-> [h \in {} |-> <<>>], base_url |-> <<>>,
     http_session |-> [id |-> 0, verify |-> TRUE,
                      adapters |-> [p \in {} |-> 0]],
     threading |-> FALSE, max_workers |-> 0, api_version |-> NoneToken,
     apps |-> {}]

\* line 87
base_url_keep(url) ==
    \* mutant: the trailing slash is kept
    url \o <<"/", "a", "p", "i">>

base_url_of(url) ==
    (IF url[Len(url)] # "/" THEN url ELSE Prefix(url, Len(url) - 1))
        \o <<"/", "a", "p", "i">>

\* line 89
auth_headers(token) ==
    [h \in {"Authorization"} |->
        <<"T", "o", "k", "e", "n", " ">> \o format(token)]

\* line 105
store_max_workers_more(max_workers) ==
    \* mutant: the pool is one worker larger than asked for
    max_workers + 1

store_max_workers(max_workers) == max_workers

\* the whole constructor: the attributes set, the requests sent, and whether
\* the caller gets a client ("usable") or an exception ("failed")
__init__(a, srv, script) ==
    IF Len(a.url) = 0
    THEN [pc |-> "failed", self |-> NoSelf, err |-> IndexError, log |-> <<>>]
    ELSE LET s == [token |-> a.token,
                   headers |-> auth_headers(a.token),
                   base_url |-> base_url_of(a.url),
                   http_session |-> make_session(a.verify, a.retries),
                   threading |-> a.threading,
                   max_workers |-> store_max_workers(a.max_workers),
                   api_version |-> a.api_version,
                   apps |-> Apps]
             v == _validate_version(s, srv, script)
         IN  [pc |-> IF v.err.type = "None" THEN "usable" ELSE "failed",
              self |-> s, err |-> v.err, log |-> v.log]

(***************************************************************************)
(* Inputs                                                                  *)
(***************************************************************************)
\* "h" stands for the scheme and host of a URL, e.g. http://host:8000
Host == <<"h">>
UrlAlphabet == {"h", "a", "/"}
VerAlphabet == {"0", "1", "2", ".", "d"}

V_1_9 == <<"1", ".", "9">>
V_2_0 == <<"2", ".", "0">>
V_2_3_1 == <<"2", ".", "3", ".", "1">>
V_dev == <<"2", "0", "2", "4", ".", "0", "6", "-", "d", "e", "v">>
NamedVersions == {V_1_9, V_2_0, V_2_3_1, V_dev}

Tokens == {NoneToken, Str(<<"t", "k">>)}
ApiVersions == {NoneToken, Str(<<"1", ".", "3">>)}
Methods == {"GET", "POST"}

\* what the server answers to the successive attempts of one call
Ok200 == Resp(200, FALSE)
Scripts(responses) == [1..(MaxRetries + 1) -> responses]
ScriptsMain == Scripts({Ok200, Resp(503, FALSE)})
AllOk == [i \in 1..(MaxRetries + 1) |-> Ok200]
\* the same for a client with at most one retry
ScriptsShort == [1..2 -> {Ok200, Resp(503, FALSE)}]

Server(v, plan, count, page_size) ==
    [version |-> v, plan |-> plan, count |-> count, page_size |-> page_size]

NoPg == [state |-> "idle", threading |-> FALSE, first |-> <<>>,
         cursor |-> 0, pending |-> {}, inflight |-> {},
         store |-> [o \in {} |-> <<>>], arrival |-> <<>>, failed |-> {}]

(***************************************************************************)
(* Actions                                                                 *)
(***************************************************************************)
\* nb = pynautobot.api(url, token=..., ...)
Construct(a, script) ==
    /\ pc = "new"
    /\ LET r == __init__(a, server, script)
       IN  /\ pc' = r.pc
           /\ self' = r.self
           /\ err' = r.err
           /\ log' = r.log
    /\ args' = a
    /\ ret' = NoRet
    /\ UNCHANGED <<server, pg>>

\* one call through a client the caller holds
Call(r) ==
    /\ pc = "usable"
    /\ pg.state = "idle"
    /\ Len(log) < 1 + MaxCalls
    /\ log' = Append(log, r.entry)
    /\ err' = r.err
    /\ ret' = r.ret
    /\ UNCHANGED <<pc, args, self, server, pg>>

\* nb.version, nb.openapi(), nb.status()
ReadVersion_cached(script) ==
    \* mutant: the value of the construction is kept and handed out again
    /\ pc = "usable"
    /\ pg.state = "idle"
    /\ ret' = [kind |-> "version", val |-> log[1].val]
    /\ err' = NoErr
    /\ UNCHANGED <<pc, args, self, log, server, pg>>

ReadVersion(script) == Call(Api_version(self, server, script))
OpenApi(script) == Call(Api_openapi(self, server, script))
Status(script) == Call(Api_status(self, server, script))

\* nb.<app>.<endpoint>.<operation>(): a single call of the request engine
EndpointCall(method, script) ==
    Call(Request_call(self, server, "endpoint", method, script))

\* the remote server is replaced by one that reports version v
ServerUpgrade(v) ==
    /\ pc = "usable"
    /\ v # server.version
    /\ server' = [server EXCEPT !.version = v]
    /\ UNCHANGED <<pc, args, self, err, ret, log, pg>>

(***************************************************************************)
(* Spec: the life of one client                                            *)
(***************************************************************************)
ArgSpace ==
    {Args(u, t, FALSE, DefaultMaxWorkers, v, r, TRUE) :
        u \in {Host, Host \o <<"/">>}, t \in Tokens, v \in ApiVersions,
        r \in {0, 1}}

Blank ==
    /\ pc = "new"
    /\ args = DefaultArgs(<<>>)
    /\ self = NoSelf
    /\ err = NoErr
    /\ ret = NoRet
    /\ log = <<>>
    /\ pg = NoPg

Init ==
    /\ Blank
    /\ server \in {Server(v, <<>>, 0, 1) : v \in NamedVersions}

Next ==
    \/ \E a \in ArgSpace, sc \in ScriptsShort : Construct(a, sc)
    \/ \E sc \in ScriptsShort : ReadVersion(sc)
    \/ \E sc \in ScriptsShort : OpenApi(sc)
    \/ \E sc \in ScriptsShort : Status(sc)
    \/ \E m \in Methods, sc \in ScriptsShort : EndpointCall(m, sc)

Spec == Init /\ [][Next]_vars

(***************************************************************************)
(* SpecGate: the version gate over every short version string              *)
(***************************************************************************)
InitGate ==
    /\ Blank
    /\ server \in {Server(v, <<>>, 0, 1) :
                      v \in StringsUpTo(VerAlphabet, MaxVerLen)
                            \cup NamedVersions}

\* every other argument of the constructor at its default
GateArgs == {DefaultArgs(Host)}

NextGate == \E a \in GateArgs, sc \in ScriptsMain : Construct(a, sc)

SpecGate == InitGate /\ [][NextGate]_vars

(***************************************************************************)
(* SpecUrl: the constructor over every short URL                           *)
(***************************************************************************)
InitUrl ==
    /\ Blank
    /\ server \in {Server(v, <<>>, 0, 1) : v \in {V_1_9, V_2_0}}

\* the empty URL, and the host followed by every short path
Urls == {<<>>} \cup {Host \o x : x \in StringsUpTo(UrlAlphabet, MaxUrlLen)}

UrlArgs == {DefaultArgs(u) : u \in Urls}

NextUrl == \E a \in UrlArgs : Construct(a, AllOk)

SpecUrl == InitUrl /\ [][NextUrl]_vars

(***************************************************************************)
(* SpecFrozen: calls of clients built with every mode, pool size, verify   *)
(* flag and retry setting                                                  *)
(***************************************************************************)
InitFrozen ==
    /\ Blank
    /\ server \in {Server(v, <<>>, 0, 1) : v \in {V_2_3_1}}

FrozenArgs ==
    {Args(Host \o <<"/">>, t, th, w, v, r, vf) :
        t \in Tokens, th \in BOOLEAN, w \in {1, DefaultMaxWorkers},
        v \in {Str(<<"1", ".", "3">>)}, r \in {0, 1}, vf \in BOOLEAN}

NextFrozen ==
    \/ \E a \in FrozenArgs, sc \in ScriptsShort : Construct(a, sc)
    \/ \E sc \in ScriptsShort : ReadVersion(sc)
    \/ \E sc \in ScriptsShort : OpenApi(sc)
    \/ \E sc \in ScriptsShort : Status(sc)
    \/ \E m \in Methods, sc \in ScriptsShort : EndpointCall(m, sc)

SpecFrozen == InitFrozen /\ [][NextFrozen]_vars

(***************************************************************************)
(* SpecConfig: the constructor over arguments in and out of their ranges   *)
(***************************************************************************)
ConfigArgs ==
    {Args(u, t, TRUE, w, NoneToken, r, TRUE) :
        u \in {<<>>, Host}, t \in Tokens, w \in {0 - 1, 0, 1, DefaultMaxWorkers},
        r \in {0 - 1, 0, 1}}

NextConfig == \E a \in ConfigArgs, sc \in ScriptsShort : Construct(a, sc)

SpecConfig == Init /\ [][NextConfig]_vars

(***************************************************************************)
(* SpecVersion: reads of nb.version while the remote server changes        *)
(***************************************************************************)
NextVersion ==
    \/ \E a \in GateArgs, sc \in ScriptsShort : Construct(a, sc)
    \/ \E sc \in ScriptsShort : ReadVersion(sc)
    \/ \E v \in NamedVersions : ServerUpgrade(v)

SpecVersion == Init /\ [][NextVersion]_vars

(***************************************************************************)
(* SpecRetry: calls of a client built with retries R against a server that *)
(* answers the attempts of each call as its plan says                      *)
(***************************************************************************)
ResponsesRetry ==
    {Ok200, Resp(404, FALSE), Resp(413, FALSE), Resp(413, TRUE),
     Resp(429, FALSE), Resp(503, FALSE), Resp(503, TRUE)}

InitRetry ==
    \E r \in 0..MaxRetries, plan \in Scripts(ResponsesRetry) :
        LET srv == Server(V_2_0, plan, 0, 1)
            a == [DefaultArgs(Host) EXCEPT !.retries = r]
            c == __init__(a, srv, AllOk)
        IN  /\ pc = c.pc
            /\ args = a
            /\ self = c.self
            /\ err = c.err
            /\ ret = NoRet
            /\ log = c.log
            /\ server = srv
            /\ pg = NoPg

NextRetry ==
    \/ ReadVersion(server.plan)
    \/ \E m \in Methods : EndpointCall(m, server.plan)

SpecRetry == InitRetry /\ [][NextRetry]_vars

(***************************************************************************)
(* fetchPaginated of the request engine: the first page synchronously,     *)
(* then the rest by following the cursor, or concurrently on a pool of     *)
(* self.max_workers workers when self.threading is set                     *)
(***************************************************************************)
Range(a, b) == [i \in 1..(b - a + 1) |-> a + i - 1]
Min(a, b) == IF a < b THEN a ELSE b

\* the server's answer to a page request: the items, the count, the cursor
ServerPage(srv, offset, limit) ==
    [results |-> Range(offset + 1, Min(offset + limit, srv.count)),
     count |-> srv.count,
     next |-> IF offset + limit < srv.count THEN offset + limit ELSE 0 - 1]

\* the offsets of the pages after the first, from the count and page size
page_offsets(count, page_size) ==
    {o \in 1..count : o < count /\ o % page_size = 0}

\* a page arrived: kept under its offset
page_arrived(p, o, results) ==
    [p EXCEPT !.inflight = @ \ {o},
              !.store = [x \in DOMAIN @ \cup {o} |->
                            IF x = o THEN results ELSE @[x]],
              !.arrival = Append(@, o)]

\* a page fetch failed: the whole call fails
page_failed_skip(p, o) ==
    \* mutant: the page is left out and the call goes on
    [p EXCEPT !.inflight = @ \ {o}, !.failed = @ \cup {o},
              !.cursor = 0 - 1]

page_failed_await(p, o) ==
    \* mutant: the failure is noted and the pool is left to run dry
    [p EXCEPT !.inflight = @ \ {o}, !.failed = @ \cup {o}]

page_failed(p, o) ==
    [p EXCEPT !.state = "failed", !.failed = @ \cup {o}]

\* the call is over once nothing is left to fetch
finish(p) ==
    IF \/ p.state = "seq" /\ p.cursor < 0
       \/ p.state = "conc" /\ p.pending = {} /\ p.inflight = {}
    THEN [p EXCEPT !.state = "done"]
    ELSE p

\* the result sequence: the first page, then the stored pages by offset
RECURSIVE concat_by_offset(_, _)
concat_by_offset(store, offsets) ==
    IF offsets = {} THEN <<>>
    ELSE LET o == CHOOSE x \in offsets : \A y \in offsets : x <= y
         IN  store[o] \o concat_by_offset(store, offsets \ {o})

RECURSIVE concat_by_arrival(_, _)
concat_by_arrival(store, arrival) ==
    IF arrival = <<>> THEN <<>>
    ELSE store[Head(arrival)] \o concat_by_arrival(store, Tail(arrival))

assemble_by_arrival(p) ==
    \* mutant: the pages are joined in the order they arrived
    p.first \o concat_by_arrival(p.store, p.arrival)

assemble(p) == p.first \o concat_by_offset(p.store, DOMAIN p.store)

\* the outcome of one page request sent through the session
page_fetch(s, script) ==
    LET t == session_send(s.http_session, "GET", script)
    IN  [ok |-> ~t.raised /\ IsOk(t.resp.status),
         err |-> IF t.raised THEN RetryError(t.resp.status)
                 ELSE RequestError(t.resp.status, ErrorBody)]

\* the caller's view after a step of the call
Outcome(p, e) ==
    /\ pg' = p
    /\ ret' = IF p.state = "done"
              THEN [kind |-> "items", val |-> assemble(p)] ELSE NoRet
    /\ err' = IF p.state = "failed" THEN e ELSE NoErr

\* nb.<app>.<endpoint>.all(): the first page, fetched on the calling thread
FetchPaginated(script) ==
    /\ pc = "usable"
    /\ pg.state = "idle"
    /\ LET f == page_fetch(self, script)
           page == ServerPage(server, 0, server.page_size)
           p0 == [pg EXCEPT !.threading = self.threading,
                            !.state = IF self.threading THEN "conc" ELSE "seq"]
           p1 == IF ~f.ok THEN page_failed(p0, 0)
                 ELSE [p0 EXCEPT
                          !.first = page.results,
                          !.cursor = page.next,
                          !.pending =
                              IF self.threading
                              THEN page_offsets(page.count, Len(page.results))
                              ELSE {}]
       IN  Outcome(finish(p1), f.err)
    /\ UNCHANGED <<pc, args, self, log, server>>

\* sequential mode: the next page, by the cursor of the one before
SeqNext(script) ==
    /\ pg.state = "seq"
    /\ LET f == page_fetch(self, script)
           page == ServerPage(server, pg.cursor, server.page_size)
           p1 == IF ~f.ok THEN page_failed(pg, pg.cursor)
                 ELSE [pg EXCEPT !.first = @ \o page.results,
                                 !.cursor = page.next]
       IN  Outcome(finish(p1), f.err)
    /\ UNCHANGED <<pc, args, self, log, server>>

\* concurrent mode: a free worker of the pool sends the request for a page
WorkerStart(o) ==
    /\ pg.state = "conc"
    /\ o \in pg.pending
    /\ Cardinality(pg.inflight) < self.max_workers
    /\ pg' = [pg EXCEPT !.pending = @ \ {o}, !.inflight = @ \cup {o}]
    /\ UNCHANGED <<pc, args, self, err, ret, log, server>>

\* concurrent mode: the answer for a page in flight comes back
WorkerDone(o, script) ==
    /\ pg.state = "conc"
    /\ o \in pg.inflight
    /\ LET f == page_fetch(self, script)
           page == ServerPage(server, o, Len(pg.first))
           p1 == IF ~f.ok THEN page_failed(pg, o)
                 ELSE page_arrived(pg, o, page.results)
       IN  Outcome(finish(p1), f.err)
    /\ UNCHANGED <<pc, args, self, log, server>>

(***************************************************************************)
(* SpecPage: one fetchPaginated call of a client, over every count, page   *)
(* size, mode, pool size and retry count                                   *)
(***************************************************************************)
InitPage ==
    \E n \in 0..MaxItems, ps \in 1..MaxPageSize, th \in BOOLEAN,
       w \in 1..MaxWorkers, r \in 0..MaxRetries :
        LET srv == Server(V_2_0, <<>>, n, ps)
            a == [DefaultArgs(Host) EXCEPT
                     !.threading = th, !.max_workers = w, !.retries = r]
            c == __init__(a, srv, AllOk)
        IN  /\ pc = c.pc
            /\ args = a
            /\ self = c.self
            /\ err = c.err
            /\ ret = NoRet
            /\ log = c.log
            /\ server = srv
            /\ pg = NoPg

NextPage ==
    \/ \E sc \in ScriptsMain : FetchPaginated(sc)
    \/ \E sc \in ScriptsMain : SeqNext(sc)
    \/ \E o \in 1..MaxItems : WorkerStart(o)
    \/ \E o \in 1..MaxItems, sc \in ScriptsMain : WorkerDone(o, sc)

SpecPage == InitPage /\ [][NextPage]_vars

(***************************************************************************)
(* What the claims say, stated without the code's own operators            *)
(***************************************************************************)
IsDigitsAndDots(v) == \A i \in 1..Len(v) : v[i] \in Digits \cup {"."}

\* v is a dotted version: non-empty runs of digits separated by single dots
WellFormed(v) ==
    /\ Len(v) > 0
    /\ IsDigitsAndDots(v)
    /\ v[1] # "."
    /\ v[Len(v)] # "."
    /\ \A i \in 1..(Len(v) - 1) : ~(v[i] = "." /\ v[i + 1] = ".")

\* the first component of a dotted version, as a number
Major(v) ==
    LET n == IF \E i \in 1..Len(v) : v[i] = "."
             THEN (CHOOSE i \in 1..Len(v) :
                      v[i] = "." /\ \A j \in 1..(i - 1) : v[j] # ".") - 1
             ELSE Len(v)
    IN  int(Prefix(v, n))

\* v compares below 2.0: component-wise, that is decided by the first one
BelowFloor(v) == WellFormed(v) /\ Major(v) < 2

\* the construction got an answer carrying the server's version
Reported == pc # "new" /\ Len(log) >= 1 /\ log[1].ok

IsIncompatibility(e) == e.type = "ValueError"

\* the server answers 503 to the first R attempts and 200 to the next
PlanIs503Then200(R) ==
    /\ \A k \in 1..R : server.plan[k].status = 503
    /\ server.plan[R + 1].status = 200

\* the items as strictly sequential pagination yields them
RECURSIVE SequentialPagination(_, _)
SequentialPagination(srv, offset) ==
    LET page == ServerPage(srv, offset, srv.page_size)
    IN  page.results \o (IF page.next < 0 THEN <<>>
                         ELSE SequentialPagination(srv, page.next))

\* the given URL without its trailing slash, and the shape of a base URL
ApiSegment == <<"/", "a", "p", "i">>

WithoutTrailingSlash(u) ==
    IF u[Len(u)] = "/" THEN Prefix(u, Len(u) - 1) ELSE u

EndsWithApiAfterNoSlash(b) ==
    /\ Len(b) >= 4
    /\ Tail2(b, Len(b) - 3) = ApiSegment
    /\ Len(b) >= 5 => b[Len(b) - 4] # "/"

\* the errors a failed request raises
TransportErrorTypes == {"RequestError", "RetryError"}

\* the server answers each of the first n attempts with a retryable status
PlanAllRetryable(n) ==
    \A k \in 1..n : server.plan[k].status \in {429, 500, 502, 503, 504}

\* the arguments of a construction are in their ranges
ValidConfig(a) == Len(a.url) > 0 /\ a.retries >= 0 /\ a.max_workers >= 1

\* the name of the header that selects the API version
VersionSelector == "Accept"

\* the calls of the three fixed paths
FixedPaths == {"version", "openapi", "status"}

\* the last status the server sent in answer to a call
LastStatus(entry) == entry.seen[Len(entry.seen)]

C2_GatingOrder ==
    /\ Len(log) >= 1 => log[1].op = "version"
    /\ Len(log) >= 2 =>
          /\ pc = "usable"
          /\ log[1].ok
          /\ ~BelowFloor(log[1].val)
    /\ pc = "failed" => Len(log) <= 1

C2_Witness ==
    /\ pc = "usable"
    /\ Len(log) = 3
    /\ log[2].op = "endpoint"
    /\ log[3].op = "status"

(***************************************************************************)
(* C3  Retry success: with retry count R, a server that answers 503 to the *)
(* first R attempts of a call and 200 to the next makes the call succeed   *)
(* after exactly R retries (R + 1 attempts); with R = 0 the session has    *)
(* only its default adapters and a single 503 fails the call after one     *)
(* attempt.                                                                *)
(***************************************************************************)
C3_RetrySuccess ==
    \A i \in 2..Len(log) :
        /\ PlanIs503Then200(args.retries) =>
              /\ log[i].ok
              /\ Len(log[i].seen) = args.retries + 1
        /\ (args.retries = 0 /\ server.plan[1].status = 503) =>
              /\ ~log[i].ok
              /\ Len(log[i].seen) = 1
              /\ i = Len(log) => err.type = "RequestError"
        /\ args.retries = 0 =>
              \A p \in Prefixes : self.http_session.adapters[p] = DefaultAdapter

C3_Witness ==
    /\ args.retries = MaxRetries
    /\ PlanIs503Then200(MaxRetries)
    /\ Len(log) >= 2
    /\ log[2].method = "POST"
    /\ log[2].ok
    /\ Len(log[2].seen) = MaxRetries + 1

(***************************************************************************)
(* C7  Authorization header: a client constructed without a token carries  *)
(* no Authorization header; a client constructed with token T carries      *)
(* Authorization with the value "Token T".                                 *)
(***************************************************************************)
C7_AuthorizationHeader ==
    (pc # "new" /\ self # NoSelf) =>
        IF args.token.isNone
        THEN "Authorization" \notin DOMAIN self.headers
        ELSE /\ "Authorization" \in DOMAIN self.headers
             /\ self.headers["Authorization"] =
                    <<"T", "o", "k", "e", "n", " ">> \o args.token.val

(***************************************************************************)
(* C8  Base URL normalization: the base URL is the given URL with its      *)
(* trailing slash removed followed by "/api", and it never has a slash     *)
(* immediately before the "/api" segment.                                  *)
(***************************************************************************)
C8_BaseUrl ==
    pc = "usable" =>
        /\ self.base_url = WithoutTrailingSlash(args.url) \o ApiSegment
        /\ EndsWithApiAfterNoSlash(self.base_url)

(***************************************************************************)
(* C9  Incompatibility error content, as claimed: the error raised for a   *)
(* version below the floor is distinguishable from transport and request   *)
(* errors and names both the detected version and the required one (2.0).  *)
(***************************************************************************)
C9_NamesBothVersions ==
    (Reported /\ BelowFloor(server.version)) =>
        /\ err.type \notin TransportErrorTypes
        /\ Contains(err.msg, server.version)
        /\ Contains(err.msg, Floor)

(***************************************************************************)
(* C9, amended: the error raised for a version below the floor is a        *)
(* ValueError, which no transport or request failure raises, and its       *)
(* message is the fixed text of line 123 whatever version was detected;    *)
(* that text does not contain the required version "2.0".                  *)
(***************************************************************************)
C9_FixedMessage ==
    (Reported /\ BelowFloor(server.version)) =>
        /\ pc = "failed"
        /\ err.type = "ValueError"
        /\ err.type \notin TransportErrorTypes
        /\ err.msg = IncompatMsg
        /\ ~Contains(err.msg, Floor)

C9_Witness ==
    /\ Reported
    /\ server.version = <<"1", ".", "1", "0">>
    /\ pc = "failed"
    /\ err.msg = IncompatMsg
    /\ ~Contains(err.msg, server.version)

(***************************************************************************)
(* C10  Exactly one construction round trip: a construction that yields a  *)
(* client has sent exactly one request, the GET of the version path, with  *)
(* no more attempts on the wire than the retry count allows; a failed      *)
(* construction has sent at most that one request.                         *)
(***************************************************************************)
C10_OneRoundTrip ==
    [][pc = "new" /\ pc' # "new" =>
          /\ Len(log') <= 1
          /\ pc' = "usable" =>
                /\ Len(log') = 1
                /\ log'[1].op = "version"
                /\ log'[1].method = "GET"
                /\ Len(log'[1].seen) <= args'.retries + 1]_vars

C10_Witness ==
    /\ pc = "usable"
    /\ Len(log) = 1
    /\ log[1].op = "version"
    /\ Len(log[1].seen) = 2

(***************************************************************************)
(* C4  Pagination order equivalence: a fetchPaginated call that succeeds   *)
(* returns, in sequential mode and in concurrent mode with any pool size   *)
(* and any completion order, the N items in the order strictly sequential  *)
(* pagination gives them.                                                  *)
(***************************************************************************)
C4_OrderEquivalence ==
    pg.state = "done" =>
        /\ ret.kind = "items"
        /\ Len(ret.val) = server.count
        /\ ret.val = SequentialPagination(server, 0)
        /\ \A i \in 1..Len(ret.val) : ret.val[i] = i

C4_Witness ==
    /\ pg.state = "done"
    /\ pg.threading
    /\ Len(pg.arrival) >= 3
    /\ pg.arrival[1] > pg.arrival[2]
    /\ ret.val = SequentialPagination(server, 0)

(***************************************************************************)
(* C5  No partial result: once a page fetch of a fetchPaginated call has   *)
(* failed, in either mode, the call has failed with an error and returned  *)
(* nothing; a call that returns has fetched every page.                    *)
(***************************************************************************)
C5_NoPartialResult ==
    /\ pg.failed # {} =>
          /\ pg.state = "failed"
          /\ ret = NoRet
          /\ err.type \in {"RequestError", "RetryError"}
    /\ pg.state = "failed" => ret = NoRet
    /\ ret.kind = "items" =>
          /\ pg.state = "done"
          /\ pg.failed = {}
          /\ Len(ret.val) = server.count

C5_Witness ==
    /\ pg.state = "failed"
    /\ pg.threading
    /\ pg.failed = {2}
    /\ DOMAIN pg.store = {1}
    /\ server.count = 4
    /\ ret = NoRet

(***************************************************************************)
(* C6  Bounded concurrency: at every moment of a concurrent fetchPaginated *)
(* call the page requests in flight are at most the max_workers the client *)
(* was constructed with.                                                   *)
(***************************************************************************)
C6_BoundedConcurrency ==
    /\ Cardinality(pg.inflight) <= args.max_workers
    /\ pc = "usable" => self.max_workers = args.max_workers

C6_Witness ==
    /\ pg.state = "conc"
    /\ args.max_workers = 2
    /\ Cardinality(pg.inflight) = 2
    /\ pg.pending # {}

(***************************************************************************)
(* C11  Version fetched once, as claimed: after construction no further    *)
(* version request is sent, and a read of the client's version returns the *)
(* value obtained at construction even if the server's version changed.    *)
(***************************************************************************)
C11_FetchedOnce ==
    pc = "usable" =>
        /\ Len(log) = 1
        /\ ret.kind = "version" => ret.val = log[1].val

(***************************************************************************)
(* C11, amended: every read of the client's version sends one new GET of   *)
(* the version path through the session and, when it is answered 2xx,      *)
(* returns the version the server reports at that moment; the gate is not  *)
(* applied again, so the client stays usable whatever is reported.         *)
(***************************************************************************)
C11_FetchedPerRead ==
    [][(pc = "usable" /\ server' = server) =>
          /\ pc' = "usable"
          /\ Len(log') = Len(log) + 1
          /\ log'[Len(log')].op = "version"
          /\ log'[Len(log')].method = "GET"
          /\ log'[Len(log')].ok =>
                ret' = [kind |-> "version", val |-> server.version]]_vars

C11_Witness ==
    /\ pc = "usable"
    /\ Len(log) = 3
    /\ log[1].val = V_2_0
    /\ log[2].val = V_2_0
    /\ log[3].val = V_1_9
    /\ server.version = V_1_9
    /\ ret = [kind |-> "version", val |-> V_1_9]

(***************************************************************************)
(* C12  Retry eligibility depends on status only: within a call, the       *)
(* response to an attempt is followed by another attempt if and only if    *)
(* retries are configured, the status is one of 429, 500, 502, 503, 504    *)
(* and a retry is left, for GET and POST alike; any other 4xx response is  *)
(* attempted once: it is the last response of its call, which fails.       *)
(***************************************************************************)
C12_StatusOnly ==
    \A i \in 2..Len(log) :
        LET seen == log[i].seen
        IN  /\ \A k \in 1..Len(seen) :
                   k < Len(seen) <=>
                       /\ args.retries > 0
                       /\ seen[k] \in {429, 500, 502, 503, 504}
                       /\ k <= args.retries
            /\ \A k \in 1..Len(seen) :
                   seen[k] \in (400..499) \ {429} =>
                       /\ k = Len(seen)
                       /\ ~log[i].ok

(***************************************************************************)
(* C13  Non-2xx on the fixed paths: a version, openapi or status call      *)
(* whose last response is not 2xx raises a request error carrying that     *)
(* status and the server's body unchanged; one answered 2xx returns the    *)
(* server's payload unchanged.                                             *)
(***************************************************************************)
C13_FixedPathErrors ==
    (Len(log) >= 1 /\ log[Len(log)].op \in FixedPaths) =>
        LET last == log[Len(log)]
        IN  IF IsOk(LastStatus(last))
            THEN /\ last.val = ServerPayload(server, last.op)
                 /\ Len(log) >= 2 =>
                        /\ err = NoErr
                        /\ ret = [kind |-> last.op, val |-> last.val]
            ELSE /\ err.type = "RequestError"
                 /\ err.status = LastStatus(last)
                 /\ err.body = ErrorBody
                 /\ ret = NoRet

(***************************************************************************)
(* C14  Fail-fast in concurrent pagination: the step in which a page fetch *)
(* of a concurrent call fails is the step in which the call fails, with    *)
(* the other fetches still in flight and nothing more stored; after it no  *)
(* page fetch is started and none is awaited.                              *)
(***************************************************************************)
C14_FailFast ==
    [][/\ (pg.state = "conc" /\ pg'.failed # pg.failed) =>
             /\ pg'.state = "failed"
             /\ err'.type \in TransportErrorTypes
             /\ ret' = NoRet
             /\ pg'.inflight = pg.inflight
             /\ pg'.pending = pg.pending
             /\ pg'.store = pg.store
       /\ pg.state = "failed" => pg' = pg]_vars

C14_Witness ==
    /\ pg.state = "failed"
    /\ pg.threading
    /\ pg.failed = {1}
    /\ pg.inflight = {1, 2}
    /\ pg.pending = {3}
    /\ err.type \in TransportErrorTypes

(***************************************************************************)
(* C15  Version-selector header: every request the client has sent, the    *)
(* version check of the construction included, carries the version         *)
(* selector if and only if the client was constructed with an api_version  *)
(* override, and then its value is that override.                          *)
(***************************************************************************)
C15_VersionSelector ==
    \A i \in 1..Len(log) :
        /\ VersionSelector \in DOMAIN log[i].headers
               <=> ~args.api_version.isNone
        /\ ~args.api_version.isNone =>
               log[i].headers[VersionSelector] = args.api_version.val

C15_Witness ==
    /\ pc = "usable"
    /\ ~args.api_version.isNone
    /\ Len(log) = 3
    /\ log[1].op = "version"
    /\ log[2].op = "openapi"
    /\ log[3].op = "status"
    /\ \A i \in 1..3 : log[i].headers[VersionSelector] = <<"1", ".", "3">>

(***************************************************************************)
(* C16  Session and configuration frozen after construction: no call       *)
(* through a client changes any attribute of it; whatever calls were made, *)
(* the client holds the session created at construction, with the verify   *)
(* flag and the retry setting given to the constructor, and the base URL,  *)
(* token, api_version, threading and max_workers of the construction; and  *)
(* every request was sent over that one session.                           *)
(***************************************************************************)
C16_Frozen ==
    /\ [](pc = "usable" =>
             /\ self.http_session.id = 1
             /\ self.http_session.verify = args.verify
             /\ \A p \in Prefixes :
                    /\ DOMAIN self.http_session.adapters = Prefixes
                    /\ self.http_session.adapters[p].total = args.retries
                    /\ self.http_session.adapters[p].allowed_methods.all
                           <=> args.retries # 0
             /\ self.base_url = WithoutTrailingSlash(args.url) \o ApiSegment
             /\ self.token = args.token
             /\ self.api_version = args.api_version
             /\ self.threading = args.threading
             /\ self.max_workers = args.max_workers
             /\ \A i \in 1..Len(log) :
                    /\ log[i].session = 1
                    /\ log[i].base = self.base_url)
    /\ [][pc = "usable" =>
             /\ self' = self
             /\ args' = args
             /\ Len(log') = Len(log) + 1
             /\ log'[Len(log')].session = self.http_session.id]_vars

C16_Witness ==
    /\ pc = "usable"
    /\ Len(log) = 3
    /\ log[2].op = "status"
    /\ log[3].op = "endpoint"
    /\ ~log[3].ok
    /\ args.retries = 1
    /\ ~args.verify
    /\ args.threading
    /\ args.max_workers = 1
    /\ self.http_session = make_session(FALSE, 1)

(***************************************************************************)
(* C17  Configuration errors precede the network: a construction whose     *)
(* URL is empty, whose retry count is negative or whose max_workers is     *)
(* below 1 fails with an error of its own kind and has sent no request.    *)
(***************************************************************************)
C17_ConfigFirst ==
    (pc # "new" /\ ~ValidConfig(args)) =>
        /\ pc = "failed"
        /\ log = <<>>
        /\ err.type \notin {"None", "ValueError"} \cup TransportErrorTypes

(***************************************************************************)
(* C18  Retry exhaustion terminates: with retry count R and a server that  *)
(* answers every attempt with a retryable status, a call makes exactly     *)
(* R + 1 attempts and then ends with an error raised to the caller, never  *)
(* with a value.                                                           *)
(***************************************************************************)
C18_Exhaustion ==
    (args.retries >= 0 /\ PlanAllRetryable(args.retries + 1)) =>
        \A i \in 2..Len(log) :
            /\ Len(log[i].seen) = args.retries + 1
            /\ ~log[i].ok
            /\ i = Len(log) =>
                   /\ err.type \in TransportErrorTypes
                   /\ ret = NoRet

C18_Witness ==
    /\ args.retries = MaxRetries
    /\ PlanAllRetryable(MaxRetries + 1)
    /\ server.plan[1].status = 429
    /\ Len(log) = 2
    /\ log[2].method = "POST"
    /\ Len(log[2].seen) = MaxRetries + 1
    /\ err.type = "RetryError"
    /\ ret = NoRet

(***************************************************************************)
(* C19  Version gate is total over reported strings: whatever string the   *)
(* server reports as its version (the empty string, dots only, digits and  *)
(* dots that are not a version such as "1..9"), the construction either    *)
(* yields a client or fails with the incompatibility error, never with     *)
(* another error.                                                          *)
(***************************************************************************)
C19_GateTotal ==
    Reported =>
        \/ pc = "usable" /\ err = NoErr
        \/ /\ pc = "failed"
           /\ IsIncompatibility(err)
           /\ err.msg = IncompatMsg

====
